---- MODULE Spec2Model ----
(***************************************************************************)
(* A model of searchLAADS.py (class searchLAADS): the tile estimate, the   *)
(* time-chunk planner, the search loop, the URL dump and the threaded      *)
(* download.  The module is Python 2 code (urllib2, SOAPpy, mixed tabs):   *)
(* "/" between two ints is floor division, math.ceil returns a float, and  *)
(* a division by zero raises ZeroDivisionError for ints and floats alike.  *)
(*                                                                         *)
(* Times are minutes (strptime "%Y%m%d%H%M" has minute resolution).        *)
(* Numbers are exact: an int is n/1 tagged "int", a float is a reduced     *)
(* fraction n/d tagged "float".  The only place the planner rounds is      *)
(* ceil(chunkHours / 168), whose argument is 500/(7*tiles) up to a few     *)
(* ulps and never within 7e-3 of an integer for a tile count that is a     *)
(* multiple of 4, so exact fractions give the float result.                *)
(***************************************************************************)
EXTENDS Integers, Sequences, FiniteSets, TLC

VARIABLES
    stime,      \* self.stime, minutes
    etime,      \* self.etime, minutes
    bbox,       \* self.bbox: <<north, south, west, east>>, Python numbers
    fileURLs,   \* self.fileURLs
    fs,         \* the file system: existing path -> directory or file content
    last,       \* the last call on the session: its arguments and outcome
    dl          \* the running downloadFiles() call: task list, worker threads

vars == <<stime, etime, bbox, fileURLs, fs, last, dl>>

----------------------------------------------------------------------------
(* Bounds of the model *)

\* etime ranges over 0 .. MaxSteps half-weeks
MaxSteps == 24
\* identifiers one searchForFiles call returns
MaxIds == 2
\* length of self.fileURLs the model lets searchFiles build
MaxURLs == 4
\* numproc of downloadFiles
MaxProc == 2
\* URLs handed to downloadFiles
MaxTasks == 3

----------------------------------------------------------------------------
(* Python 2 numbers *)

ZeroDivisionError == [t |-> "ZeroDivisionError"]

IsErr(x) == x.t = "ZeroDivisionError"

Abs(x) == IF x < 0 THEN -x ELSE x

RECURSIVE GCD(_, _)
GCD(a, b) == IF b = 0 THEN a ELSE GCD(b, a % b)

\* g > 0 even for 0/0 inputs
Gcd1(a, b) == LET g == GCD(Abs(a), Abs(b)) IN IF g = 0 THEN 1 ELSE g

PyInt(v) == [t |-> "int", n |-> v, d |-> 1]

\* the float n/d, reduced, d > 0
PyFloat(n, d) ==
    LET s == IF d < 0 THEN -1 ELSE 1
        g == Gcd1(n, d)
    IN  [t |-> "float", n |-> (s * n) \div g, d |-> (s * d) \div g]

\* floor(n / d) for d > 0
FloorDiv(n, d) == n \div d

\* ceil(n / d) for d > 0
CeilDiv(n, d) == -((-n) \div d)

\* a - b
PySub(a, b) ==
    IF IsErr(a) THEN a ELSE IF IsErr(b) THEN b
    ELSE IF a.t = "int" /\ b.t = "int" THEN PyInt(a.n - b.n)
    ELSE PyFloat(a.n * b.d - b.n * a.d, a.d * b.d)

\* a * b, cancelling across before multiplying
PyMul(a, b) ==
    IF IsErr(a) THEN a ELSE IF IsErr(b) THEN b
    ELSE IF a.t = "int" /\ b.t = "int" THEN PyInt(a.n * b.n)
    ELSE LET g1 == Gcd1(a.n, b.d)
             g2 == Gcd1(b.n, a.d)
         IN  PyFloat((a.n \div g1) * (b.n \div g2), (a.d \div g2) * (b.d \div g1))

\* a / b: floor division of two ints, true division otherwise; both raise on 0
PyDiv(a, b) ==
    IF IsErr(a) THEN a ELSE IF IsErr(b) THEN b
    ELSE IF b.n = 0 THEN ZeroDivisionError
    ELSE IF a.t = "int" /\ b.t = "int"
         THEN PyInt(IF b.n > 0 THEN FloorDiv(a.n, b.n) ELSE FloorDiv(-a.n, -b.n))
    ELSE LET g1 == Gcd1(a.n, b.n)
             g2 == Gcd1(a.d, b.d)
         IN  PyFloat((a.n \div g1) * (b.d \div g2), (a.d \div g2) * (b.n \div g1))

\* abs(x) keeps the type
PyAbs(x) == IF IsErr(x) THEN x ELSE [x EXCEPT !.n = Abs(x.n)]

\* math.ceil(x): a float in Python 2
PyCeil(x) == IF IsErr(x) THEN x ELSE PyFloat(CeilDiv(x.n, x.d), 1)

\* a < b for two numbers
PyLess(a, b) == a.n * b.d < b.n * a.d

----------------------------------------------------------------------------
(* The planner *)

LAADSmaxFiles == 1000

MinutesPerWeek == 10080

\* bbox[2], bbox[3], bbox[0], bbox[1] of the 0-based source are b[3], b[4], b[1], b[2]
numTilesForBbox(b) ==
    LET numlat == PyDiv(PySub(b[3], b[4]), PyInt(20))
        numlon == PyDiv(PySub(b[1], b[2]), PyInt(20))
    IN  PyMul(PyMul(PyMul(PyCeil(PyAbs(numlat)), PyInt(2)),
                    PyCeil(PyAbs(numlon))), PyInt(2))

\* (self.etime - self.stime).total_seconds() / 3600
DeltaHours(s, e) == PyDiv(PyFloat((e - s) * 60, 1), PyInt(3600))

estimNumFiles(s, e, b) ==
    LET deltaHours == DeltaHours(s, e)
        numDaysNights == PyDiv(deltaHours, PyInt(12))
    IN  PyMul(numDaysNights, numTilesForBbox(b))

\* deltaHours / numChunks, the chunk width in hours before rounding
ChunkHoursOf(s, e, b) ==
    LET numChunks == PyDiv(estimNumFiles(s, e, b), PyInt(LAADSmaxFiles))
        deltaHours == DeltaHours(s, e)
    IN  PyDiv(deltaHours, numChunks)

\* a planner that divides by the hours of a day instead of a week
ChunkWeeksDaily(chunkHours) == PyCeil(PyDiv(chunkHours, PyInt(24)))

\* math.ceil(chunkHours / (7 * 24))
ChunkWeeks(chunkHours) == PyCeil(PyDiv(chunkHours, PyInt(7 * 24)))

\* a planner that does not clip the last chunk
ChunkEndUnclipped(chunkEtime, e) == chunkEtime

\* the end of the chunk appended by one pass of the loop
ChunkEnd(chunkEtime, e) == IF chunkEtime < e THEN chunkEtime ELSE e

\* the while loop; weeks is a positive whole number of weeks
RECURSIVE ChunkLoop(_, _, _, _)
ChunkLoop(chunkStime, e, weeks, chunkList) ==
    IF chunkStime < e
    THEN LET chunkEtime == chunkStime + weeks * MinutesPerWeek
         IN  ChunkLoop(chunkEtime, e, weeks,
                       Append(chunkList, <<chunkStime, ChunkEnd(chunkEtime, e)>>))
    ELSE chunkList

\* timeChunks(): [kind |-> "return", val |-> the list] or [kind |-> "raise", ...]
timeChunks(s, e, b) ==
    LET chunkHours == ChunkHoursOf(s, e, b)
        chunkWeeks == ChunkWeeks(chunkHours)
    IN  IF IsErr(chunkWeeks)
        THEN [kind |-> "raise", exc |-> chunkWeeks.t]
        ELSE [kind |-> "return",
              val |-> ChunkLoop(s, e, chunkWeeks.n \div chunkWeeks.d, <<>>)]

----------------------------------------------------------------------------
(* Inputs *)

HalfWeek == MinutesPerWeek \div 2

\* degrees given as Python ints and as Python floats
BboxVals == {PyInt(-90), PyInt(0), PyInt(10), PyFloat(10, 1), PyFloat(50, 1)}

Bboxes == {<<n, s, w, e>> : n \in BboxVals, s \in BboxVals, w \in BboxVals, e \in BboxVals}

STimes == {HalfWeek, HalfWeek + 1}

ETimes == {k * HalfWeek : k \in 0 .. MaxSteps}

NoCall == [op |-> "none"]

NoDownload == [pc |-> "idle"]

\* __init__: the fields as given, fileURLs empty
InitPlan ==
    /\ stime \in STimes
    /\ etime \in ETimes
    /\ bbox \in Bboxes
    /\ fileURLs = <<>>
    /\ fs = <<>>
    /\ last = NoCall
    /\ dl = NoDownload

CallNumTilesForBbox ==
    /\ last' = [op |-> "numTilesForBbox", kind |-> "return", val |-> numTilesForBbox(bbox)]
    /\ UNCHANGED <<stime, etime, bbox, fileURLs, fs, dl>>

CallTimeChunks ==
    /\ last' = [op |-> "timeChunks"] @@ timeChunks(stime, etime, bbox)
    /\ UNCHANGED <<stime, etime, bbox, fileURLs, fs, dl>>

NextPlan == CallNumTilesForBbox \/ CallTimeChunks

SpecPlan == InitPlan /\ [][NextPlan]_vars

----------------------------------------------------------------------------
(* Claims about the planner, checked under SpecPlan *)

Tiles == numTilesForBbox(bbox)

PlanReturned == last.op = "timeChunks" /\ last.kind = "return"

\* chunks is a contiguous cover of (s, e) by non-empty intervals
Partitions(chunks, s, e) ==
    /\ Len(chunks) >= 1
    /\ chunks[1][1] = s
    /\ chunks[Len(chunks)][2] = e
    /\ \A i \in 1 .. Len(chunks) : chunks[i][1] < chunks[i][2]
    /\ \A i \in 1 .. Len(chunks) - 1 : chunks[i][2] = chunks[i + 1][1]

\* C1: with stime < etime and a positive tile count, timeChunks() returns a
\* non-empty list that partitions the range: it starts at stime, ends at etime,
\* each chunk ends where the next starts, and every chunk has start < end.
C1_Partition ==
    (last.op = "timeChunks" /\ stime < etime /\ Tiles.n > 0)
        => /\ last.kind = "return"
           /\ Partitions(last.val, stime, etime)

\* a plan of three or more chunks whose last one is clipped to etime
C1_Witness ==
    /\ PlanReturned /\ stime < etime /\ Tiles.n > 0
    /\ Len(last.val) >= 3
    /\ (last.val[Len(last.val)][2] - last.val[Len(last.val)][1])
           < (last.val[1][2] - last.val[1][1])

\* C2: with stime = etime, timeChunks() returns exactly the one zero-width
\* chunk (stime, stime).
C2_ZeroWidthChunk ==
    (last.op = "timeChunks" /\ stime = etime)
        => /\ last.kind = "return"
           /\ last.val = << <<stime, stime>> >>

\* the case of C3: a plan over a forward range whose unrounded chunk width is
\* at least one week (168 hours)
C3_Case ==
    /\ PlanReturned /\ stime < etime /\ Tiles.n > 0
    /\ ~PyLess(ChunkHoursOf(stime, etime, bbox), PyInt(7 * 24))

\* chunk duration in hours / 12, times the tile count
ChunkEstimate(c) == estimNumFiles(c[1], c[2], bbox)

\* the limit of the web service named by the comments of the class
ServerMaxFiles == 6000

\* C3 as claimed: in that case every chunk's estimate is at most LAADSmaxFiles.
C3_EstimateUnderCap ==
    C3_Case => \A i \in 1 .. Len(last.val) :
                   ~PyLess(PyInt(LAADSmaxFiles), ChunkEstimate(last.val[i]))

\* C3 amended: in that case every chunk's estimate is less than LAADSmaxFiles
\* plus one week of files (14 twelve-hour periods times the tile count), and
\* below the 6000 files the service returns at most.
C3_EstimateWithinOneWeek ==
    C3_Case => \A i \in 1 .. Len(last.val) :
                   /\ PyLess(ChunkEstimate(last.val[i]),
                             PyInt(LAADSmaxFiles + 14 * Tiles.n))
                   /\ PyLess(ChunkEstimate(last.val[i]), PyInt(ServerMaxFiles))

\* a full-width chunk, rounded up to whole weeks, with an estimate over 1000
C3_Witness ==
    /\ C3_Case
    /\ Len(last.val) >= 2
    /\ PyLess(PyInt(LAADSmaxFiles), ChunkEstimate(last.val[1]))

SwapNS(b) == <<b[2], b[1], b[3], b[4]>>

SwapWE(b) == <<b[1], b[2], b[4], b[3]>>

\* C5: numTilesForBbox() is non-negative and unchanged by swapping north with
\* south or west with east.
C5_SwapSymmetric ==
    last.op = "numTilesForBbox"
        => /\ last.val.n >= 0
           /\ last.val = numTilesForBbox(SwapNS(bbox))
           /\ last.val = numTilesForBbox(SwapWE(bbox))

\* C6: with etime before stime, timeChunks() does not return normally with a
\* chunk list: an error is raised to the caller.
C6_InvalidRangeRaised ==
    (last.op = "timeChunks" /\ etime < stime) => last.kind = "raise"

\* C7: with a tile count of 0 and stime < etime, timeChunks() raises no error
\* and returns a plan covering the range.
C7_DegenerateRecovered ==
    (last.op = "timeChunks" /\ stime < etime /\ Tiles.n = 0)
        => /\ last.kind = "return"
           /\ Partitions(last.val, stime, etime)

----------------------------------------------------------------------------
(* searchFiles() and its two collaborators *)

\* the identifiers the catalog returns; the second dot-field of a file name
\* is "A" + year + day of year
FileIds == {"101", "201"}

AllFileIds == {"101", "102", "201"}

SecondField(id) ==
    IF id = "201" THEN <<"A", "2", "0", "2", "1", "0", "0", "1">>
    ELSE <<"A", "2", "0", "2", "0", "0", "0", "1">>

\* the URL the service resolves an identifier to: the archive path and the
\* dot-separated fields of the file name
UrlOf(id) == [path |-> "archive", base |-> <<"MOD35_L2", SecondField(id), id, "hdf">>]

\* what one searchForFiles call may return
IdSeqs == UNION {[1 .. n -> FileIds] : n \in 0 .. MaxIds}

\* t.strftime("%Y-%m-%d %H:%M"): the day, the hour and the minute
Strftime(t) == [date |-> t \div 1440, hour |-> (t % 1440) \div 60, minute |-> t % 60]

\* ",".join(IDs): a string as the sequence of its pieces
RECURSIVE Join(_)
Join(IDs) ==
    IF Len(IDs) = 0 THEN <<>>
    ELSE IF Len(IDs) = 1 THEN <<IDs[1]>>
    ELSE <<IDs[1], ",">> \o Join(Tail(IDs))

\* the identifiers of a comma-separated string; none for the empty string
RECURSIVE SplitIds(_)
SplitIds(str) ==
    IF Len(str) = 0 THEN <<>>
    ELSE IF str[1] = "," THEN SplitIds(Tail(str))
    ELSE <<str[1]>> \o SplitIds(Tail(str))

\* server.getFileUrls(fileIds=...): one URL per identifier, in order
getFileUrls(fileIds) ==
    LET ids == SplitIds(fileIds) IN [i \in 1 .. Len(ids) |-> UrlOf(ids[i])]

\* a loop that assigns instead of extending
ExtendReplacing(urls, URLs) == URLs

\* self.fileURLs += URLs
Extend(urls, URLs) == urls \o URLs

\* the for loop from chunk i on: the URL list and the calls made, in order
RECURSIVE SearchLoop(_, _, _, _, _)
SearchLoop(i, tchunks, responses, urls, calls) ==
    IF i > Len(tchunks) THEN [urls |-> urls, calls |-> calls]
    ELSE LET starttime == Strftime(tchunks[i][1])
             endtime == Strftime(tchunks[i][2])
             IDs == responses[i]
             IDsFilestring == Join(IDs)
             URLs == getFileUrls(IDsFilestring)
         IN  SearchLoop(i + 1, tchunks, responses, Extend(urls, URLs),
                        calls \o << [fn |-> "searchForFiles", startTime |-> starttime,
                                     endTime |-> endtime],
                                    [fn |-> "getFileUrls", fileIds |-> IDsFilestring] >>)

\* searchFiles(): the plan, then one pass of the loop per chunk; responses[i]
\* is what the catalog returns for chunk i.  A session serves one search.
SearchFiles ==
    LET plan == timeChunks(stime, etime, bbox) IN
    /\ last.op = "none"
    /\ \/ /\ plan.kind = "raise"
          /\ last' = [op |-> "searchFiles", kind |-> "raise", exc |-> plan.exc,
                      calls |-> <<>>]
          /\ UNCHANGED fileURLs
       \/ /\ plan.kind = "return"
          /\ \E responses \in [1 .. Len(plan.val) -> IdSeqs] :
                LET run == SearchLoop(1, plan.val, responses, fileURLs, <<>>) IN
                /\ fileURLs' = run.urls
                /\ last' = [op |-> "searchFiles", kind |-> "return",
                            tchunks |-> plan.val, responses |-> responses,
                            calls |-> run.calls]
    /\ UNCHANGED <<stime, etime, bbox, fs, dl>>

\* a box of 20 tiles (chunks of 4 weeks), one of 4 tiles (18 weeks), one of
\* no tiles, and an int box whose tile count depends on the order of its bounds
SearchBboxes ==
    { <<PyFloat(10, 1), PyInt(0), PyInt(-90), PyInt(10)>>,
      <<PyFloat(10, 1), PyInt(0), PyInt(0), PyFloat(10, 1)>>,
      <<PyInt(0), PyInt(0), PyInt(0), PyInt(10)>>,
      <<PyInt(0), PyInt(10), PyInt(-90), PyInt(10)>>,
      <<PyInt(10), PyInt(0), PyInt(-90), PyInt(10)>> }

SearchETimes == {k * HalfWeek : k \in {0, 1, 4, 12, MaxSteps}}

InitSearch ==
    /\ stime \in STimes
    /\ etime \in SearchETimes
    /\ bbox \in SearchBboxes
    /\ fileURLs = <<>>
    /\ fs = <<>>
    /\ last = NoCall
    /\ dl = NoDownload

NextSearch == SearchFiles

SpecSearch == InitSearch /\ [][NextSearch]_vars

----------------------------------------------------------------------------
(* Claims about searchFiles(), checked under SpecSearch *)

RECURSIVE Flatten(_)
Flatten(seqs) == IF Len(seqs) = 0 THEN <<>> ELSE seqs[1] \o Flatten(Tail(seqs))

ResolveCalls == SelectSeq(last.calls, LAMBDA c : c.fn = "getFileUrls")

SearchReturned == last.op = "searchFiles" /\ last.kind = "return"

\* C4: a searchFiles() call that starts with fileURLs empty and completes
\* leaves fileURLs equal to the URLs of the identifiers returned for chunk 1,
\* then those of chunk 2, and so on, each in the order returned; its length is
\* the sum of the identifier counts; one search is issued per planned chunk,
\* in plan order.
C4_ConcatInChunkOrder ==
    [][ (fileURLs = <<>> /\ last'.op = "searchFiles" /\ last'.kind = "return")
          => LET r == last'.responses
                 n == Len(last'.tchunks)
                 searches == SelectSeq(last'.calls, LAMBDA c : c.fn = "searchForFiles")
             IN  /\ fileURLs' = Flatten([i \in 1 .. n |->
                                    [j \in 1 .. Len(r[i]) |-> UrlOf(r[i][j])]])
                 /\ Len(fileURLs') = Len(Flatten(r))
                 /\ Len(searches) = n
                 /\ \A i \in 1 .. n :
                        /\ searches[i].startTime = Strftime(last'.tchunks[i][1])
                        /\ searches[i].endTime = Strftime(last'.tchunks[i][2])
      ]_vars

\* a completed search over three chunks, the first returning two different
\* identifiers, the second none, the third one
C4_Witness ==
    /\ SearchReturned
    /\ Len(last.tchunks) = 3
    /\ Len(last.responses[1]) = 2 /\ last.responses[1][1] # last.responses[1][2]
    /\ Len(last.responses[2]) = 0
    /\ Len(last.responses[3]) = 1
    /\ Len(fileURLs) = 3

\* C9: getFileUrls is called for a chunk only if its search returned a
\* non-empty identifier sequence: the resolve calls are those of the chunks
\* with identifiers, so none carries an empty batch.
C9_ResolveOnlyNonEmpty ==
    SearchReturned
        => /\ Len(ResolveCalls) =
                  Cardinality({i \in 1 .. Len(last.tchunks) : Len(last.responses[i]) > 0})
           /\ \A k \in 1 .. Len(ResolveCalls) : Len(ResolveCalls[k].fileIds) > 0

----------------------------------------------------------------------------
(* dumpURLs(): the file system maps each existing path to Dir or, for a     *)
(* file, to File(the sequence of strings written to it)                    *)

Absent == [kind |-> "absent"]

Dir == [kind |-> "dir"]

File(data) == [kind |-> "file", data |-> data]

Content(f, path) == IF path \in DOMAIN f THEN f[path] ELSE Absent

\* os.path.isfile(path)
IsFile(f, path) == Content(f, path).kind = "file"

\* the file system with path holding content
WithPath(f, path, content) ==
    [q \in DOMAIN f \cup {path} |-> IF q = path THEN content ELSE f[q]]

\* what the loop of f.write(i + "\n") leaves in the file
Lines(urls) == [i \in 1 .. Len(urls) |-> <<urls[i], "\n">>]

\* a dump that never looks for the file
ExistsIgnored(f, fname, replace) == FALSE

\* os.path.isfile(fname) & (not replace)
ExistsUnreplaced(f, fname, replace) == IsFile(f, fname) /\ ~replace

DumpPaths == {<<"urls.txt">>, <<"other.txt">>}

DumpURLs(fname, replace) ==
    /\ IF Len(fileURLs) < 1
       THEN /\ last' = [op |-> "dumpURLs", fname |-> fname, replace |-> replace,
                        out |-> "printed: no URLs to write"]
            /\ UNCHANGED fs
       ELSE IF ExistsUnreplaced(fs, fname, replace)
       THEN /\ last' = [op |-> "dumpURLs", fname |-> fname, replace |-> replace,
                        out |-> "printed: file already exists"]
            /\ UNCHANGED fs
       ELSE IF Content(fs, fname) = Dir
       THEN \* open(fname, "w") on a directory
            /\ last' = [op |-> "dumpURLs", fname |-> fname, replace |-> replace,
                        out |-> "raised: IOError"]
            /\ UNCHANGED fs
       ELSE /\ last' = [op |-> "dumpURLs", fname |-> fname, replace |-> replace,
                        out |-> "written"]
            /\ fs' = WithPath(fs, fname, File(Lines(fileURLs)))
    /\ UNCHANGED <<stime, etime, bbox, fileURLs, dl>>

\* a list dumped by an earlier session
OldContent == File(Lines(<<UrlOf("102")>>))

\* the lists searchFiles() can leave in fileURLs
UrlSeqs(n) == UNION {[1 .. k -> {UrlOf(id) : id \in FileIds}] : k \in 0 .. n}

\* each path absent, a directory, or a file written earlier
DumpFileSystems ==
    UNION {[ps -> {Dir, OldContent}] : ps \in SUBSET DumpPaths}

InitDump ==
    /\ stime = HalfWeek
    /\ etime = 2 * HalfWeek
    /\ bbox = <<PyFloat(10, 1), PyInt(0), PyInt(0), PyFloat(10, 1)>>
    /\ fileURLs \in UrlSeqs(MaxURLs)
    /\ fs \in DumpFileSystems
    /\ last = NoCall
    /\ dl = NoDownload

NextDump == \E fname \in DumpPaths, replace \in BOOLEAN : DumpURLs(fname, replace)

SpecDump == InitDump /\ [][NextDump]_vars

\* C8: a dumpURLs(fname, replace) call with fileURLs non-empty, on a path that
\* is a file and with replace False, leaves the file as it was and prints the
\* "already exists" message; the file is written only if the path did not exist
\* or replace is True, and then holds one URL per line in list order; no other
\* path changes.
C8_ExistingFileKept ==
    [][ (last'.op = "dumpURLs" /\ Len(fileURLs) >= 1)
          => LET f == last'.fname IN
             /\ (IsFile(fs, f) /\ ~last'.replace)
                    => /\ Content(fs', f) = Content(fs, f)
                       /\ last'.out = "printed: file already exists"
             /\ Content(fs', f) # Content(fs, f)
                    => (Content(fs, f) = Absent \/ last'.replace)
             /\ last'.out = "written"
                    => /\ (Content(fs, f) = Absent \/ last'.replace)
                       /\ Content(fs', f) = File(Lines(fileURLs))
             /\ (Content(fs, f) = Absent \/ (IsFile(fs, f) /\ last'.replace))
                    => last'.out = "written"
             /\ \A q \in DumpPaths \ {f} : Content(fs', q) = Content(fs, q)
      ]_vars

\* a refused dump of two or more URLs onto the old file, which is still there
C8_Witness ==
    /\ last.op = "dumpURLs" /\ ~last.replace
    /\ last.out = "printed: file already exists"
    /\ Len(fileURLs) >= 2
    /\ Content(fs, last.fname) = OldContent

----------------------------------------------------------------------------
(* downloadFiles(): p.map hands the items of pathList to numproc worker     *)
(* threads (multiprocessing.dummy); with at most 4 * numproc items each     *)
(* item is a task of its own.  When a task raises, map raises in the caller *)
(* at once (Python 2.7 MapResult._set) while the pool's threads go on with  *)
(* the other items.  Without multiproc the caller runs the items in order   *)
(* and stops at the first that raises.                                      *)

BaseDir == "data"

\* pathTuple(url): year = basename.split(".")[1][1:5], outdir = directory/year
pathTuple(url) ==
    LET secfield == url.base[2]
        year == SubSeq(secfield, 2, 5)
    IN  <<url, <<BaseDir, year>>>>

\* os.path.join(directory, os.path.basename(url))
FilePath(item) == <<item[2][1], item[2][2], item[1].base>>

\* the bytes urlopen(url).read() gives
Bytes(url) == <<url, "bytes">>

Idle == [pc |-> "idle", task |-> 0]

\* downloadFiles(directory, multiproc, numproc) is called
StartDownload(multiproc, numproc) ==
    /\ dl.pc = "idle"
    /\ dl' = [pc |-> "running", multiproc |-> multiproc, numproc |-> numproc,
              pathList |-> [i \in 1 .. Len(fileURLs) |-> pathTuple(fileURLs[i])],
              next |-> 1,
              workers |-> [w \in 1 .. (IF multiproc THEN numproc ELSE 1) |-> Idle],
              status |-> [i \in 1 .. Len(fileURLs) |-> "pending"],
              writes |-> [i \in 1 .. Len(fileURLs) |-> 0]]
    /\ last' = [op |-> "downloadFiles"]
    /\ UNCHANGED <<stime, etime, bbox, fileURLs, fs>>

\* threads of the call are at work
Running == dl.pc = "running" \/ (dl.pc = "raised" /\ dl.multiproc)

\* a free thread takes the next item: download(itemtuple) starts
TakeTask(w) ==
    /\ Running
    /\ w \in DOMAIN dl.workers
    /\ dl.workers[w].pc = "idle"
    /\ dl.next <= Len(dl.pathList)
    /\ dl' = [dl EXCEPT !.workers[w] = [pc |-> "check", task |-> dl.next],
                        !.next = dl.next + 1]
    /\ UNCHANGED <<stime, etime, bbox, fileURLs, fs, last>>

\* if not os.path.exists(directory):
CheckDir(w) ==
    /\ Running
    /\ w \in DOMAIN dl.workers
    /\ dl.workers[w].pc = "check"
    /\ LET directory == dl.pathList[dl.workers[w].task][2] IN
       dl' = [dl EXCEPT !.workers[w].pc =
                  IF directory \in DOMAIN fs THEN "fetch" ELSE "makedirs"]
    /\ UNCHANGED <<stime, etime, bbox, fileURLs, fs, last>>

\* os.makedirs(directory): OSError if the directory exists by now
MakeDirs(w) ==
    /\ Running
    /\ w \in DOMAIN dl.workers
    /\ dl.workers[w].pc = "makedirs"
    /\ LET i == dl.workers[w].task
           directory == dl.pathList[i][2]
       IN  IF directory \in DOMAIN fs
           THEN /\ dl' = [dl EXCEPT !.workers[w] = Idle,
                                    !.status[i] = "raised: OSError",
                                    !.pc = "raised"]
                /\ UNCHANGED fs
           ELSE /\ dl' = [dl EXCEPT !.workers[w].pc = "fetch"]
                /\ fs' = WithPath(fs, directory, Dir)
    /\ UNCHANGED <<stime, etime, bbox, fileURLs, last>>

\* urlopen(url), then the file is opened "wb" and written; pbar.update(1)
FetchAndWrite(w) ==
    /\ Running
    /\ w \in DOMAIN dl.workers
    /\ dl.workers[w].pc = "fetch"
    /\ LET i == dl.workers[w].task IN
       /\ dl' = [dl EXCEPT !.workers[w] = Idle,
                           !.status[i] = "done",
                           !.writes[i] = dl.writes[i] + 1]
       /\ fs' = WithPath(fs, FilePath(dl.pathList[i]), File(Bytes(dl.pathList[i][1])))
    /\ UNCHANGED <<stime, etime, bbox, fileURLs, last>>

\* every item has run and none raised: map returns, then pbar.close()
FinishDownload ==
    /\ dl.pc = "running"
    /\ \A i \in DOMAIN dl.status : dl.status[i] = "done"
    /\ dl' = [dl EXCEPT !.pc = "returned"]
    /\ UNCHANGED <<stime, etime, bbox, fileURLs, fs, last>>

DownloadUrlSeqs == UNION {[1 .. k -> {UrlOf(id) : id \in AllFileIds}] : k \in 0 .. MaxTasks}

YearDirs == {pathTuple(UrlOf(id))[2] : id \in AllFileIds}

\* the session after a search; some year directories may exist already
InitDownload ==
    /\ stime = HalfWeek
    /\ etime = 2 * HalfWeek
    /\ bbox = <<PyFloat(10, 1), PyInt(0), PyInt(0), PyFloat(10, 1)>>
    /\ fileURLs \in DownloadUrlSeqs
    /\ fs \in {[d \in ds |-> Dir] : ds \in SUBSET YearDirs}
    /\ last = NoCall
    /\ dl = NoDownload

NextDownload ==
    \/ \E multiproc \in BOOLEAN, numproc \in 1 .. MaxProc : StartDownload(multiproc, numproc)
    \/ \E w \in 1 .. MaxProc : TakeTask(w)
    \/ \E w \in 1 .. MaxProc : CheckDir(w)
    \/ \E w \in 1 .. MaxProc : MakeDirs(w)
    \/ \E w \in 1 .. MaxProc : FetchAndWrite(w)
    \/ FinishDownload

SpecDownload == InitDownload /\ [][NextDownload]_vars

\* C10: a downloadFiles call with multiproc and numproc >= 2 ends by
\* returning, under every interleaving: no makedirs fails, and every URL of
\* fileURLs has been written exactly once to directory/<year>/<basename>.
C10_DownloadCompletes ==
    (dl.pc \in {"returned", "raised"} /\ dl.multiproc /\ dl.numproc >= 2)
        => /\ dl.pc = "returned"
           /\ \A i \in 1 .. Len(fileURLs) :
                 /\ dl.writes[i] = 1
                 /\ Content(fs, FilePath(pathTuple(fileURLs[i]))) = File(Bytes(fileURLs[i]))

====
